---- MODULE Spec2Model ----
(***************************************************************************)
(* Model of maven-repo-cleaner (src/main.rs): cleanup() walks a local      *)
(* Maven repository breadth-first with a VecDeque work list, deletes stale *)
(* snapshot artifacts and maven-metadata-local.xml files, and reports the  *)
(* number of bytes it counted.                                             *)
(*                                                                         *)
(* A file name is a TLA+ string in the state; Chars gives its characters,  *)
(* and ends_with / contains are computed on the characters.  A path is the *)
(* sequence of its components.  The filesystem calls the code makes        *)
(* (read_dir, metadata, remove_file) are fallible: each call's outcome is  *)
(* chosen when the call is made.                                           *)
(***************************************************************************)
EXTENDS Integers, Sequences, FiniteSets, TLC

VARIABLES
    fs,            \* the tree on disk: path -> [kind, exists]
    repo_path,     \* the root given to cleanup
    queue,         \* the VecDeque of pending paths
    deleted_size,  \* the byte counter
    pc,            \* "main", "exit1", "loop", "halted" (left by break), "done",
                   \* "panicked"
    log,           \* the lines logged so far
    probe_failed,  \* some std::fs::metadata call of the run failed
    reclaimed,     \* the sizes of the files remove_file removed, summed
    visited,       \* the paths pop_front returned, in order
    plan,          \* "once": one run; "again": a second run on the tree the
                   \* first left; "replay": a second run on the initial tree
                   \* in which every call has the outcome it had in the first
    prior,         \* the completed runs: what each left behind
    oracle,        \* under "replay": path -> the outcome its calls had
    call           \* a call of format_size on its own: [size, text], or None

vars == <<fs, repo_path, queue, deleted_size, pc, log, probe_failed, reclaimed, visited,
          plan, prior, oracle, call>>

(***************************************************************************)
(* Bounds of the model.                                                    *)
(***************************************************************************)
\* entries below the root in the initial tree
MaxEntries == 3
\* a regular file has a size in 1..MaxSize
MaxSize == 2
\* entries below the root in the trees of the specifications that start at
\* main or run cleanup twice
MaxSmall == 2
\* format_size is applied to the sizes within MaxDelta of a size of interest
MaxDelta == 8

Sizes(kind) == IF kind = "file" THEN 1..MaxSize ELSE {0}

(***************************************************************************)
(* Names.  INVALID stands for a byte that is not valid UTF-8.              *)
(***************************************************************************)
INVALID == "\\xFF"

N_REPO == "repo"
N_CURDIR == "."
N_SNAP == "1.0-SNAPSHOT"
N_REL == "1.0"
N_BADDIR == "\\xFFdir"
N_STALE == "foo-1.0-20230101.120000-1.jar"
N_CURRENT == "foo-1.0-SNAPSHOT.jar"
N_META == "maven-metadata-local.xml"
N_SHA == "bar.war.sha1"
N_ZIP == "notes.zip"
N_BADFILE == "\\xFFbad.pom"

Chars(n) ==
    CASE n = N_REPO -> <<"r","e","p","o">>
      [] n = N_CURDIR -> <<".">>
      [] n = N_SNAP -> <<"1",".","0","-","S","N","A","P","S","H","O","T">>
      [] n = N_REL -> <<"1",".","0">>
      [] n = N_BADDIR -> <<INVALID,"d","i","r">>
      [] n = N_STALE -> <<"f","o","o","-","1",".","0","-","2","0","2","3","0","1","0","1",".","1","2","0","0","0","0","-","1",".","j","a","r">>
      [] n = N_CURRENT -> <<"f","o","o","-","1",".","0","-","S","N","A","P","S","H","O","T",".","j","a","r">>
      [] n = N_META -> <<"m","a","v","e","n","-","m","e","t","a","d","a","t","a","-","l","o","c","a","l",".","x","m","l">>
      [] n = N_SHA -> <<"b","a","r",".","w","a","r",".","s","h","a","1">>
      [] n = N_ZIP -> <<"n","o","t","e","s",".","z","i","p">>
      [] n = N_BADFILE -> <<INVALID,"b","a","d",".","p","o","m">>

RootNames == {N_REPO, N_CURDIR}
DirNames == {N_SNAP, N_REL, N_BADDIR}
FileNames == {N_STALE, N_CURRENT, N_META, N_SHA, N_ZIP, N_BADFILE}
\* the names an entry that is neither a regular file nor a directory may have
OtherNames == {N_SHA, N_BADFILE}
\* names that an entry directly under the root may also bear as a directory
DirLikeNames == {N_SHA}

(***************************************************************************)
(* The program's constants (main.rs:8-19).                                 *)
(***************************************************************************)
SNAPSHOT_SUFFIX == <<"-","S","N","A","P","S","H","O","T">>

\* faulty variant of SUFFIXIES: ".sha1" is a suffix of its own as well
SUFFIXIES_with_sha1 ==
    << <<".","j","a","r">>,
       <<".","j","a","r",".","s","h","a","1">>,
       <<".","p","o","m">>,
       <<".","p","o","m",".","s","h","a","1">>,
       <<".","w","a","r">>,
       <<".","w","a","r",".","s","h","a","1">>,
       <<".","s","h","a","1">>
    >>

SUFFIXIES ==
    << <<".","j","a","r">>,
       <<".","j","a","r",".","s","h","a","1">>,
       <<".","p","o","m">>,
       <<".","p","o","m",".","s","h","a","1">>,
       <<".","w","a","r">>,
       <<".","w","a","r",".","s","h","a","1">>
    >>

LOCAL_METADATA_FILE ==
    <<"m","a","v","e","n","-","m","e","t","a","d","a","t","a","-","l","o","c","a","l",".","x","m","l">>

(***************************************************************************)
(* str::ends_with and str::contains, on character sequences.               *)
(***************************************************************************)
ends_with(s, suffix) ==
    /\ Len(suffix) <= Len(s)
    /\ SubSeq(s, Len(s) - Len(suffix) + 1, Len(s)) = suffix

contains(s, pat) ==
    \E i \in 0..(Len(s) - Len(pat)) : SubSeq(s, i + 1, i + Len(pat)) = pat

(***************************************************************************)
(* Option<T>: None is the empty sequence, Some(x) the sequence <<x>>.      *)
(***************************************************************************)
None == <<>>
Some(x) == <<x>>
is_none(o) == o = <<>>
unwrap(o) == o[1]

(***************************************************************************)
(* Paths.  Path::parent drops the last component; Path::file_name is the   *)
(* last component unless the path is "." ; get_file_name (main.rs:123-130) *)
(* also needs the name to be valid UTF-8 (OsStr::to_str).                  *)
(***************************************************************************)
parent(path) ==
    IF Len(path) <= 1 THEN None ELSE Some(SubSeq(path, 1, Len(path) - 1))

path_file_name(path) ==
    IF path[Len(path)] = N_CURDIR THEN None ELSE Some(path[Len(path)])

to_str(os_name) ==
    IF \E i \in 1..Len(Chars(os_name)) : Chars(os_name)[i] = INVALID
    THEN None
    ELSE Some(Chars(os_name))

get_file_name(path) ==
    IF is_none(path_file_name(path)) THEN None ELSE to_str(unwrap(path_file_name(path)))

(***************************************************************************)
(* The filesystem: fs maps every path of the initial tree to its kind      *)
(* ("dir", a regular "file", or "other": a fifo, a socket, a dangling      *)
(* symlink) and whether it still exists.  The size of a file is drawn from *)
(* Sizes when the file is evaluated.                                       *)
(***************************************************************************)
exists(f, path) == path \in DOMAIN f /\ f[path].exists

\* faulty variant of is_dir: an entry named like an artifact is not a directory
is_dir_unless_suffixed(f, path) ==
    /\ exists(f, path)
    /\ f[path].kind = "dir"
    /\ ~\E i \in 1..Len(SUFFIXIES) : ends_with(Chars(path[Len(path)]), SUFFIXIES[i])

is_dir(f, path) == exists(f, path) /\ f[path].kind = "dir"

is_file(f, path) == exists(f, path) /\ f[path].kind = "file"

\* the entries read_dir finds in a directory
Children(f, path) ==
    {c \in DOMAIN f : Len(c) = Len(path) + 1
                       /\ SubSeq(c, 1, Len(path)) = path
                       /\ f[c].exists}

IsUnder(c, path) == Len(c) > Len(path) /\ SubSeq(c, 1, Len(path)) = path

(***************************************************************************)
(* The outcome of the filesystem calls made for one path: read_dir and the *)
(* entries that are Err for a directory; metadata, remove_file and the     *)
(* size for a file.  Under plan "replay" an outcome is remembered, and the *)
(* calls made for the same path later have that outcome again.             *)
(***************************************************************************)
DirOutcome(list_ok, errs) == [list_ok |-> list_ok, errs |-> errs]

FileOutcome(rm_ok, meta_ok, size) == [rm_ok |-> rm_ok, meta_ok |-> meta_ok, size |-> size]

Permits(path, outcome) ==
    (plan = "replay" /\ path \in DOMAIN oracle) => oracle[path] = outcome

Record(path, outcome) ==
    IF plan = "replay" THEN (path :> outcome) @@ oracle ELSE oracle

(***************************************************************************)
(* Log lines (log::debug!, log::info!, log::error!).                       *)
(***************************************************************************)
Line(level, msg, arg) == [level |-> level, msg |-> msg, arg |-> arg]

(***************************************************************************)
(* format_size (main.rs:132-139).  size is a u64; it is held as the pair   *)
(* [hi, lo] that stands for hi * 2^20 + lo with 0 <= lo < 2^20, so that    *)
(* sizes of several GiB can be written with small integers.  "{:.2}"       *)
(* prints the quotient rounded to two decimals, ties to even (the quotient *)
(* is exact in f64: the divisor is a power of two).  The result is the     *)
(* printed number in hundredths, the number of decimals printed and the    *)
(* unit.                                                                   *)
(***************************************************************************)
KiB == 1024
MiB == 1048576
GiB == 1073741824

\* the u64 of a count the model holds as one integer
U64(n) == [hi |-> n \div MiB, lo |-> n % MiB]

\* s * 100 / unit rounded to an integer, for s below 2^20
round_2dp(s, unit) ==
    LET q == (s * 100) \div unit
        r == (s * 100) % unit
    IN  IF 2 * r > unit \/ (2 * r = unit /\ q % 2 = 1) THEN q + 1 ELSE q

\* (hi * 2^20 + lo) * 100 / 2^30 rounded to an integer
round_2dp_GiB(size) ==
    LET n == size.hi * 100 + (size.lo * 100) \div MiB
        f == (size.lo * 100) % MiB
        q == n \div (GiB \div MiB)
        r == n % (GiB \div MiB)
        half == (GiB \div MiB) \div 2
    IN  IF r > half \/ (r = half /\ f > 0) \/ (r = half /\ f = 0 /\ q % 2 = 1)
        THEN q + 1
        ELSE q

\* faulty variant of format_size: the thresholds are compared with >
format_size_strict(size) ==
    IF size.hi > GiB \div MiB \/ (size.hi = GiB \div MiB /\ size.lo > 0)
    THEN [hundredths |-> round_2dp_GiB(size), decimals |-> 2, unit |-> "GiB"]
    ELSE IF size.hi > 1 \/ (size.hi = 1 /\ size.lo > 0)
    THEN [hundredths |-> size.hi * 100 + round_2dp(size.lo, MiB), decimals |-> 2, unit |-> "MiB"]
    ELSE IF size.hi = 1 \/ size.lo > KiB
    THEN [hundredths |-> round_2dp(size.hi * MiB + size.lo, KiB), decimals |-> 2, unit |-> "KiB"]
    ELSE [hundredths |-> size.lo * 100, decimals |-> 0, unit |-> "B"]

format_size(size) ==
    IF size.hi >= GiB \div MiB
    THEN [hundredths |-> round_2dp_GiB(size), decimals |-> 2, unit |-> "GiB"]
    ELSE IF size.hi >= 1
    THEN [hundredths |-> size.hi * 100 + round_2dp(size.lo, MiB), decimals |-> 2, unit |-> "MiB"]
    ELSE IF size.lo >= KiB
    THEN [hundredths |-> round_2dp(size.lo, KiB), decimals |-> 2, unit |-> "KiB"]
    ELSE [hundredths |-> size.lo * 100, decimals |-> 0, unit |-> "B"]

(***************************************************************************)
(* The initial trees: up to MaxEntries entries below the root, at depth 1  *)
(* (files and directories) or 2 (files); an entry named like a directory   *)
(* is a directory, any other is a regular file, an "other" entry or, for a *)
(* name of DirLikeNames directly under the root, a directory.              *)
(***************************************************************************)
Addable(r, s) ==
    {<<r, x>> : x \in DirNames \cup FileNames}
    \cup {Append(d, x) : d \in {p \in s : Len(p) = 2 /\ p[2] \in DirNames},
                         x \in FileNames}

RECURSIVE Trees(_, _)
Trees(r, k) ==
    IF k = 0 THEN {{}}
    ELSE LET P == Trees(r, k - 1)
         IN  P \cup UNION {{s \cup {e} : e \in Addable(r, s)} : s \in P}

Meta(path) ==
    IF path[Len(path)] \in DirNames \cup RootNames
    THEN {[kind |-> "dir", exists |-> TRUE]}
    ELSE {[kind |-> "file", exists |-> TRUE]}
         \cup (IF path[Len(path)] \in OtherNames
               THEN {[kind |-> "other", exists |-> TRUE]}
               ELSE {})
         \cup (IF path[Len(path)] \in DirLikeNames /\ Len(path) = 2
               THEN {[kind |-> "dir", exists |-> TRUE]}
               ELSE {})

AllMeta == UNION {Meta(<<n>>) \cup Meta(<<n, n>>) : n \in RootNames \cup FileNames}

FileSystemsOf(r, k) ==
    UNION {{f \in [t \cup {<<r>>} -> AllMeta] : \A p \in DOMAIN f : f[p] \in Meta(p)}
           : t \in Trees(r, k)}

FileSystems(r) == FileSystemsOf(r, MaxEntries)

(***************************************************************************)
(* cleanup, lines 43-46: the counter is 0 and the queue holds the root.    *)
(***************************************************************************)
Init ==
    /\ repo_path \in {<<r>> : r \in RootNames}
    /\ fs \in FileSystems(repo_path[1])
    /\ queue = <<repo_path>>
    /\ deleted_size = 0
    /\ pc = "loop"
    /\ log = <<>>
    /\ probe_failed = FALSE
    /\ reclaimed = 0
    /\ visited = <<>>
    /\ plan = "once"
    /\ prior = <<>>
    /\ oracle = <<>>
    /\ call = None

\* `while let Some(path) = queue.pop_front()` (main.rs:47)
Dequeues ==
    /\ pc = "loop"
    /\ queue # <<>>
    /\ visited' = Append(visited, Head(queue))

(***************************************************************************)
(* main.rs:48-52: a directory whose name cannot be resolved is skipped.    *)
(***************************************************************************)
SkipUnnamedDir ==
    /\ Dequeues
    /\ is_dir(fs, Head(queue))
    /\ is_none(get_file_name(Head(queue)))
    /\ queue' = Tail(queue)
    /\ UNCHANGED <<fs, repo_path, deleted_size, pc, log, probe_failed, reclaimed,
                   plan, prior, oracle, call>>

\* faulty variant of ReadDirFails: a read_dir error leaves the while loop
ReadDirFails_Fatal ==
    /\ Dequeues
    /\ is_dir(fs, Head(queue))
    /\ ~is_none(get_file_name(Head(queue)))
    /\ queue' = Tail(queue)
    /\ log' = Append(log, Line("error", "Failed to read directory", Head(queue)))
    /\ pc' = "halted"
    /\ Permits(Head(queue), DirOutcome(FALSE, {}))
    /\ oracle' = Record(Head(queue), DirOutcome(FALSE, {}))
    /\ UNCHANGED <<fs, repo_path, deleted_size, probe_failed, reclaimed, plan, prior, call>>

(***************************************************************************)
(* main.rs:54, 78-80: read_dir fails; the error is logged and the loop     *)
(* goes on with the next path.                                             *)
(***************************************************************************)
ReadDirFails ==
    /\ Dequeues
    /\ is_dir(fs, Head(queue))
    /\ ~is_none(get_file_name(Head(queue)))
    /\ queue' = Tail(queue)
    /\ log' = Append(log, Line("error", "Failed to read directory", Head(queue)))
    /\ Permits(Head(queue), DirOutcome(FALSE, {}))
    /\ oracle' = Record(Head(queue), DirOutcome(FALSE, {}))
    /\ UNCHANGED <<fs, repo_path, deleted_size, pc, probe_failed, reclaimed, plan, prior, call>>

(***************************************************************************)
(* main.rs:56-75: the loop over the entries of one directory.  entries is  *)
(* what the iterator yields, in its order; an entry is an Err or a path.   *)
(* get_file_name(..).unwrap() on line 66 panics when the name of a regular *)
(* file is not valid UTF-8.                                                *)
(***************************************************************************)
\* faulty variant of should_enqueue: the test of line 68 is missing
should_enqueue_snapshot_only(folder_name, entry_file_name) ==
    ends_with(folder_name, SNAPSHOT_SUFFIX)

should_enqueue(folder_name, entry_file_name) ==
    ends_with(folder_name, SNAPSHOT_SUFFIX) \/ entry_file_name = LOCAL_METADATA_FILE

\* faulty variant of scan_entries: a file that passes the test of lines 67-68
\* is pushed there and again by the push of line 73
RECURSIVE scan_entries_falls_through(_, _, _, _, _, _)
scan_entries_falls_through(f, path, entries, folder_name, q, lg) ==
    IF entries = <<>> THEN [queue |-> q, log |-> lg, panicked |-> FALSE]
    ELSE LET entry == Head(entries)
             rest == Tail(entries)
         IN  IF entry.err
             THEN scan_entries_falls_through(f, path, rest, folder_name, q,
                      Append(lg, Line("error", "Failed to read directory entry", path)))
             ELSE IF is_file(f, entry.path)
             THEN LET entry_file_name == get_file_name(entry.path)
                  IN  IF is_none(entry_file_name)
                      THEN [queue |-> q, log |-> lg, panicked |-> TRUE]
                      ELSE IF should_enqueue(folder_name, unwrap(entry_file_name))
                      THEN scan_entries_falls_through(f, path, rest, folder_name,
                               Append(Append(q, entry.path), entry.path), lg)
                      ELSE scan_entries_falls_through(f, path, rest, folder_name, q, lg)
             ELSE scan_entries_falls_through(f, path, rest, folder_name,
                      Append(q, entry.path), lg)

RECURSIVE scan_entries(_, _, _, _, _, _)
scan_entries(f, path, entries, folder_name, q, lg) ==
    IF entries = <<>> THEN [queue |-> q, log |-> lg, panicked |-> FALSE]
    ELSE LET entry == Head(entries)
             rest == Tail(entries)
         IN  IF entry.err
             THEN scan_entries(f, path, rest, folder_name, q,
                      Append(lg, Line("error", "Failed to read directory entry", path)))
             ELSE IF is_file(f, entry.path)
             THEN LET entry_file_name == get_file_name(entry.path)
                  IN  IF is_none(entry_file_name)
                      THEN [queue |-> q, log |-> lg, panicked |-> TRUE]
                      ELSE IF should_enqueue(folder_name, unwrap(entry_file_name))
                      THEN scan_entries(f, path, rest, folder_name, Append(q, entry.path), lg)
                      ELSE scan_entries(f, path, rest, folder_name, q, lg)
             ELSE scan_entries(f, path, rest, folder_name, Append(q, entry.path), lg)

\* every order in which read_dir may yield the set S
Orders(S) ==
    {o \in [1..Cardinality(S) -> S] : \A i, j \in 1..Cardinality(S) : o[i] = o[j] => i = j}

Listings(f, path) ==
    LET C == Children(f, path)
    IN  UNION {{[i \in 1..Cardinality(C) |-> [path |-> o[i], err |-> o[i] \in E]] : o \in Orders(C)}
               : E \in SUBSET C}

\* the entries of a listing that are Err
Errs(entries) == {entries[i].path : i \in {j \in 1..Len(entries) : entries[j].err}}

\* faulty variant of ScanDir: the entries are pushed at the front of the queue
ScanDir_PushFront ==
    /\ Dequeues
    /\ is_dir(fs, Head(queue))
    /\ ~is_none(get_file_name(Head(queue)))
    /\ \E entries \in Listings(fs, Head(queue)) :
          LET folder_name == unwrap(get_file_name(Head(queue)))
              new == scan_entries(fs, Head(queue), entries, folder_name, <<>>, log)
              r == [new EXCEPT !.queue = new.queue \o Tail(queue)]
              outcome == DirOutcome(TRUE, Errs(entries))
          IN  /\ Permits(Head(queue), outcome)
              /\ oracle' = Record(Head(queue), outcome)
              /\ IF r.panicked
                 THEN /\ pc' = "panicked"
                      /\ queue' = r.queue
                      /\ log' = r.log
                 ELSE /\ pc' = pc
                      /\ queue' = r.queue
                      /\ log' = Append(r.log, Line("debug", "Scanning", Head(queue)))
    /\ UNCHANGED <<fs, repo_path, deleted_size, probe_failed, reclaimed, plan, prior, call>>

(***************************************************************************)
(* main.rs:48-77: a directory is dequeued and listed.                      *)
(***************************************************************************)
ScanDir ==
    /\ Dequeues
    /\ is_dir(fs, Head(queue))
    /\ ~is_none(get_file_name(Head(queue)))
    /\ \E entries \in Listings(fs, Head(queue)) :
          LET folder_name == unwrap(get_file_name(Head(queue)))
              r == scan_entries(fs, Head(queue), entries, folder_name, Tail(queue), log)
              outcome == DirOutcome(TRUE, Errs(entries))
          IN  /\ Permits(Head(queue), outcome)
              /\ oracle' = Record(Head(queue), outcome)
              /\ IF r.panicked
                 THEN /\ pc' = "panicked"
                      /\ queue' = r.queue
                      /\ log' = r.log
                 ELSE /\ pc' = pc
                      /\ queue' = r.queue
                      /\ log' = Append(r.log, Line("debug", "Scanning", Head(queue)))
    /\ UNCHANGED <<fs, repo_path, deleted_size, probe_failed, reclaimed, plan, prior, call>>

(***************************************************************************)
(* main.rs:83-92: a dequeued non-directory is skipped when it has no       *)
(* parent or when its name or its parent's name cannot be resolved.        *)
(***************************************************************************)
names_resolved(path) ==
    /\ ~is_none(parent(path))
    /\ ~is_none(get_file_name(unwrap(parent(path))))
    /\ ~is_none(get_file_name(path))

SkipUnnamedFile ==
    /\ Dequeues
    /\ ~is_dir(fs, Head(queue))
    /\ ~names_resolved(Head(queue))
    /\ queue' = Tail(queue)
    /\ UNCHANGED <<fs, repo_path, deleted_size, pc, log, probe_failed, reclaimed,
                   plan, prior, oracle, call>>

\* faulty variant of remove_file: the call succeeds and the entry stays
remove_file_leaves_entry(f, path) == f

\* std::fs::remove_file: the entry is gone when the call succeeds
remove_file(f, path) == [f EXCEPT ![path].exists = FALSE]

\* faulty variant of DeleteLocalMetadata: a failed remove_file does not `break`
DeleteLocalMetadata_NoBreak ==
    /\ Dequeues
    /\ ~is_dir(fs, Head(queue))
    /\ names_resolved(Head(queue))
    /\ LOCAL_METADATA_FILE = unwrap(get_file_name(Head(queue)))
    /\ queue' = Tail(queue)
    /\ \E rm_ok \in BOOLEAN, size \in Sizes(fs[Head(queue)].kind) :
       /\ Permits(Head(queue), FileOutcome(rm_ok, TRUE, size))
       /\ oracle' = Record(Head(queue), FileOutcome(rm_ok, TRUE, size))
       /\ IF exists(fs, Head(queue)) /\ rm_ok
          THEN /\ fs' = remove_file(fs, Head(queue))
               /\ reclaimed' = reclaimed + size
               /\ log' = Append(log, Line("info", "Deleting", Head(queue)))
          ELSE /\ fs' = fs
               /\ reclaimed' = reclaimed
               /\ log' = log \o <<Line("info", "Deleting", Head(queue)),
                                  Line("error", "Failed to delete file", Head(queue))>>
    /\ UNCHANGED <<repo_path, deleted_size, probe_failed, pc, plan, prior, call>>

(***************************************************************************)
(* main.rs:96-101: maven-metadata-local.xml is deleted; when remove_file   *)
(* fails the `break` leaves the while loop.                                *)
(***************************************************************************)
DeleteLocalMetadata ==
    /\ Dequeues
    /\ ~is_dir(fs, Head(queue))
    /\ names_resolved(Head(queue))
    /\ LOCAL_METADATA_FILE = unwrap(get_file_name(Head(queue)))
    /\ queue' = Tail(queue)
    /\ \E rm_ok \in BOOLEAN, size \in Sizes(fs[Head(queue)].kind) :
       /\ Permits(Head(queue), FileOutcome(rm_ok, TRUE, size))
       /\ oracle' = Record(Head(queue), FileOutcome(rm_ok, TRUE, size))
       /\ IF exists(fs, Head(queue)) /\ rm_ok
          THEN /\ fs' = remove_file(fs, Head(queue))
               /\ reclaimed' = reclaimed + size
               /\ log' = Append(log, Line("info", "Deleting", Head(queue)))
               /\ pc' = pc
          ELSE /\ fs' = fs
               /\ reclaimed' = reclaimed
               /\ log' = log \o <<Line("info", "Deleting", Head(queue)),
                                  Line("error", "Failed to delete file", Head(queue))>>
               /\ pc' = "halted"
    /\ UNCHANGED <<repo_path, deleted_size, probe_failed, plan, prior, call>>

(***************************************************************************)
(* main.rs:103-114: the loop over SUFFIXIES for one file, from the i-th    *)
(* suffix on.  st is the state the loop changes; size is the size of the   *)
(* file, meta_ok and rm_ok the outcomes of metadata and remove_file on a   *)
(* file that exists (both fail on a file that is gone).                    *)
(***************************************************************************)
\* faulty variant of is_stale: the containment test of line 104 is missing
is_stale_by_suffix_only(file_name, folder_name, suffix) ==
    ends_with(file_name, suffix)

\* faulty variant of is_stale: the suffix test of line 104 is missing
is_stale_whatever_suffix(file_name, folder_name, suffix) ==
    ~contains(file_name, folder_name)

is_stale(file_name, folder_name, suffix) ==
    ends_with(file_name, suffix) /\ ~contains(file_name, folder_name)

RECURSIVE suffix_loop(_, _, _, _, _, _, _, _)
suffix_loop(i, path, file_name, folder_name, st, size, meta_ok, rm_ok) ==
    IF i > Len(SUFFIXIES) THEN st
    ELSE IF is_stale(file_name, folder_name, SUFFIXIES[i])
    THEN LET probed == exists(st.fs, path) /\ meta_ok
             removed == exists(st.fs, path) /\ rm_ok
             counted == st.deleted_size + (IF probed THEN size ELSE 0)
             deleting == Append(st.log, Line("info", "Deleting", path))
         IN  IF removed
             THEN suffix_loop(i + 1, path, file_name, folder_name,
                      [fs |-> remove_file(st.fs, path),
                       deleted_size |-> counted,
                       log |-> deleting,
                       probe_failed |-> st.probe_failed \/ ~probed,
                       reclaimed |-> st.reclaimed + size],
                      size, meta_ok, rm_ok)
             ELSE [fs |-> st.fs,
                   deleted_size |-> counted,
                   log |-> Append(deleting, Line("error", "Failed to delete file", path)),
                   probe_failed |-> st.probe_failed \/ ~probed,
                   reclaimed |-> st.reclaimed]
    ELSE suffix_loop(i + 1, path, file_name, folder_name, st, size, meta_ok, rm_ok)

\* faulty variant of EvaluateArtifact: the `break` of line 111 leaves the while loop
EvaluateArtifact_Fatal ==
    /\ Dequeues
    /\ ~is_dir(fs, Head(queue))
    /\ names_resolved(Head(queue))
    /\ LOCAL_METADATA_FILE # unwrap(get_file_name(Head(queue)))
    /\ queue' = Tail(queue)
    /\ \E size \in Sizes(fs[Head(queue)].kind), meta_ok \in BOOLEAN, rm_ok \in BOOLEAN :
          LET path == Head(queue)
              st == suffix_loop(1, path,
                        unwrap(get_file_name(path)),
                        unwrap(get_file_name(unwrap(parent(path)))),
                        [fs |-> fs, deleted_size |-> deleted_size, log |-> log,
                         probe_failed |-> probe_failed, reclaimed |-> reclaimed],
                        size, meta_ok, rm_ok)
              outcome == FileOutcome(rm_ok, meta_ok, size)
          IN  /\ Permits(path, outcome)
              /\ oracle' = IF st.log = log THEN oracle ELSE Record(path, outcome)
              /\ fs' = st.fs
              /\ deleted_size' = st.deleted_size
              /\ log' = st.log
              /\ probe_failed' = st.probe_failed
              /\ reclaimed' = st.reclaimed
              /\ pc' = IF Len(st.log) > Len(log) /\ st.log[Len(st.log)].level = "error"
                       THEN "halted"
                       ELSE pc
    /\ UNCHANGED <<repo_path, plan, prior, call>>

(***************************************************************************)
(* main.rs:82-95, 102-115: any other dequeued non-directory is matched     *)
(* against the suffixes.                                                   *)
(***************************************************************************)
EvaluateArtifact ==
    /\ Dequeues
    /\ ~is_dir(fs, Head(queue))
    /\ names_resolved(Head(queue))
    /\ LOCAL_METADATA_FILE # unwrap(get_file_name(Head(queue)))
    /\ queue' = Tail(queue)
    /\ \E size \in Sizes(fs[Head(queue)].kind), meta_ok \in BOOLEAN, rm_ok \in BOOLEAN :
          LET path == Head(queue)
              st == suffix_loop(1, path,
                        unwrap(get_file_name(path)),
                        unwrap(get_file_name(unwrap(parent(path)))),
                        [fs |-> fs, deleted_size |-> deleted_size, log |-> log,
                         probe_failed |-> probe_failed, reclaimed |-> reclaimed],
                        size, meta_ok, rm_ok)
              outcome == FileOutcome(rm_ok, meta_ok, size)
          IN  /\ Permits(path, outcome)
              /\ oracle' = IF st.log = log THEN oracle ELSE Record(path, outcome)
              /\ fs' = st.fs
              /\ deleted_size' = st.deleted_size
              /\ log' = st.log
              /\ probe_failed' = st.probe_failed
              /\ reclaimed' = st.reclaimed
    /\ UNCHANGED <<repo_path, pc, plan, prior, call>>

(***************************************************************************)
(* main.rs:119-120: after the loop (queue empty, or left by `break`) the   *)
(* total is formatted and logged.                                          *)
(***************************************************************************)
Report ==
    /\ (pc = "loop" /\ queue = <<>>) \/ pc = "halted"
    /\ log' = Append(log, Line("info", "Deleted size", format_size(U64(deleted_size))))
    /\ pc' = "done"
    /\ UNCHANGED <<fs, repo_path, queue, deleted_size, probe_failed, reclaimed, visited,
                   plan, prior, oracle, call>>

Next ==
    \/ SkipUnnamedDir
    \/ ReadDirFails
    \/ ScanDir
    \/ SkipUnnamedFile
    \/ DeleteLocalMetadata
    \/ EvaluateArtifact
    \/ Report

Spec == Init /\ [][Next]_vars

(***************************************************************************)
(* Vocabulary of the properties.                                           *)
(***************************************************************************)
NameChars(p) == Chars(p[Len(p)])

FolderChars(p) == Chars(p[Len(p) - 1])

Removed(p) == ~fs[p].exists

InSeq(q, p) == \E i \in 1..Len(q) : q[i] = p

Logged(msg, p) == \E i \in 1..Len(log) : log[i].msg = msg /\ log[i].arg = p

HasRecognizedSuffix(n) == \E i \in 1..Len(SUFFIXIES) : ends_with(n, SUFFIXIES[i])

\* the entries below the root
Entries == {p \in DOMAIN fs : Len(p) >= 2}

\* regular files with a recognized suffix directly under a -SNAPSHOT directory
SnapshotArtifacts ==
    {p \in Entries : /\ fs[p].kind = "file"
                     /\ ends_with(FolderChars(p), SNAPSHOT_SUFFIX)
                     /\ HasRecognizedSuffix(NameChars(p))}

\* the files named maven-metadata-local.xml
MetadataFiles ==
    {p \in Entries : fs[p].kind # "dir" /\ NameChars(p) = LOCAL_METADATA_FILE}

\* read_dir of d succeeded and every entry of d was read
ScannedClean(d) == Logged("Scanning", d) /\ ~Logged("Failed to read directory entry", d)

(***************************************************************************)
(* C1, as stated: when cleanup is done, a file with a recognized suffix    *)
(* directly under a -SNAPSHOT directory has been deleted if and only if    *)
(* its name does not contain the directory's name.                         *)
(***************************************************************************)
C1_DeletedIffNameLacksFolder ==
    pc = "done" =>
        \A p \in SnapshotArtifacts :
            Removed(p) <=> ~contains(NameChars(p), FolderChars(p))

(***************************************************************************)
(* C1, amended: such a file is deleted only if its name does not contain   *)
(* the directory's name; once cleanup has dequeued it, it has been deleted *)
(* if and only if its name does not contain the directory's name and       *)
(* remove_file did not fail; a file that was never dequeued is still there.*)
(***************************************************************************)
C1_EvaluatedDeletedIffStale ==
    \A p \in SnapshotArtifacts :
        /\ Removed(p) => ~contains(NameChars(p), FolderChars(p))
        /\ InSeq(visited, p) =>
              (Removed(p) <=> /\ ~contains(NameChars(p), FolderChars(p))
                              /\ ~Logged("Failed to delete file", p))
        /\ ~InSeq(visited, p) => ~Removed(p)

\* the timestamped build is deleted and the -SNAPSHOT artifact beside it is kept
C1_Witness ==
    /\ pc = "done"
    /\ \E p, q \in SnapshotArtifacts :
          /\ p[Len(p)] = N_STALE /\ Removed(p)
          /\ q[Len(q)] = N_CURRENT /\ InSeq(visited, q) /\ ~Removed(q)
          /\ SubSeq(p, 1, Len(p) - 1) = SubSeq(q, 1, Len(q) - 1)

(***************************************************************************)
(* C2: under a directory whose name does not end in -SNAPSHOT, no child    *)
(* that is not a directory and is not named maven-metadata-local.xml is    *)
(* ever enqueued, evaluated or deleted.                                    *)
(***************************************************************************)
C2_NonSnapshotChildrenUntouched ==
    \A p \in Entries :
        (/\ fs[p].kind # "dir"
         /\ ~ends_with(FolderChars(p), SNAPSHOT_SUFFIX)
         /\ NameChars(p) # LOCAL_METADATA_FILE)
        => ~InSeq(queue, p) /\ ~InSeq(visited, p) /\ ~Removed(p)

(***************************************************************************)
(* C3, as stated: when cleanup is done, every file named                   *)
(* maven-metadata-local.xml under the root has been deleted.               *)
(***************************************************************************)
C3_EveryMetadataFileDeleted ==
    pc = "done" => \A p \in MetadataFiles : Removed(p)

(***************************************************************************)
(* C3, amended: a maven-metadata-local.xml file is enqueued by every       *)
(* directory scan that reads it, whatever the directory's name; once       *)
(* dequeued, remove_file is called on it, and it has been deleted if and   *)
(* only if that call did not fail; one never dequeued is still there.      *)
(***************************************************************************)
C3_MetadataDeletedWhenReached ==
    \A p \in MetadataFiles :
        /\ ScannedClean(SubSeq(p, 1, Len(p) - 1)) => InSeq(queue, p) \/ InSeq(visited, p)
        /\ InSeq(visited, p) =>
              /\ Logged("Deleting", p)
              /\ Removed(p) <=> ~Logged("Failed to delete file", p)
        /\ ~InSeq(visited, p) => ~Removed(p)

\* a metadata file under a directory that is no snapshot directory is deleted
C3_Witness ==
    /\ pc = "done"
    /\ \E p \in MetadataFiles :
          /\ Len(p) = 3
          /\ ~ends_with(FolderChars(p), SNAPSHOT_SUFFIX)
          /\ Removed(p)

\* the line the summary is logged as
Summary(n) == Line("info", "Deleted size", format_size(U64(n)))

\* remove_file failed on a maven-metadata-local.xml file
MetadataDeleteFailed ==
    \E i \in 1..Len(log) :
        log[i].msg = "Failed to delete file" /\ NameChars(log[i].arg) = LOCAL_METADATA_FILE

(***************************************************************************)
(* C4: when cleanup is done and no size lookup failed, the total it        *)
(* reports is the sum of the sizes of the files it removed.                *)
(***************************************************************************)
C4_ReportsBytesReclaimed ==
    (pc = "done" /\ ~probe_failed) =>
        /\ deleted_size = reclaimed
        /\ log[Len(log)] = Summary(reclaimed)

(***************************************************************************)
(* C5: deleted_size never decreases, and a step increases it only if the   *)
(* step removes a file.                                                    *)
(***************************************************************************)
C5_CounterGrowsOnlyOnRemoval ==
    [][/\ deleted_size' >= deleted_size
       /\ deleted_size' > deleted_size =>
             \E p \in DOMAIN fs : fs[p].exists /\ ~fs'[p].exists]_vars

(***************************************************************************)
(* C6: the step in which remove_file fails on a maven-metadata-local.xml   *)
(* file leaves the loop with the disk and the counter as they were; the    *)
(* only step after it logs the summary of that counter and ends the run:   *)
(* nothing still in the queue is dequeued, expanded or deleted.            *)
(***************************************************************************)
MetadataDeleteFails ==
    /\ pc = "loop" /\ queue # <<>>
    /\ ~is_dir(fs, Head(queue))
    /\ NameChars(Head(queue)) = LOCAL_METADATA_FILE
    /\ fs'[Head(queue)].exists

C6_MetadataFailureHalts ==
    [][/\ MetadataDeleteFails =>
             /\ pc' = "halted"
             /\ queue' = Tail(queue)
             /\ fs' = fs
             /\ deleted_size' = deleted_size
       /\ pc = "halted" =>
             /\ pc' = "done"
             /\ log' = Append(log, Summary(deleted_size))
             /\ UNCHANGED <<fs, queue, visited, deleted_size, reclaimed>>]_vars

\* the run ended by the halt, with paths left in the queue
C6_Witness ==
    /\ pc = "done"
    /\ MetadataDeleteFailed
    /\ queue # <<>>
    /\ log[Len(log)] = Summary(deleted_size)

(***************************************************************************)
(* C7: the step in which remove_file fails on a stale artifact leaves the  *)
(* file on disk and stays in the loop: the queue, the control state and    *)
(* the counter are what a successful deletion would have left, so the      *)
(* paths still queued are processed as they would have been.               *)
(***************************************************************************)
ArtifactDeleteFails ==
    /\ pc = "loop" /\ queue # <<>>
    /\ ~is_dir(fs, Head(queue))
    /\ NameChars(Head(queue)) # LOCAL_METADATA_FILE
    /\ Len(log') > Len(log)
    /\ log'[Len(log')] = Line("error", "Failed to delete file", Head(queue))

\* what the step leaves when every remove_file succeeds
DeletionSucceeds(path, size, meta_ok) ==
    suffix_loop(1, path, NameChars(path), FolderChars(path),
        [fs |-> fs, deleted_size |-> deleted_size, log |-> log,
         probe_failed |-> probe_failed, reclaimed |-> reclaimed],
        size, meta_ok, TRUE)

C7_ArtifactFailureIsLocal ==
    [][ArtifactDeleteFails =>
          /\ fs' = fs
          /\ pc' = "loop"
          /\ queue' = Tail(queue)
          /\ \E size \in Sizes(fs[Head(queue)].kind), meta_ok \in BOOLEAN :
                deleted_size' = DeletionSucceeds(Head(queue), size, meta_ok).deleted_size]_vars

\* a stale artifact could not be deleted and a later path was still processed
C7_Witness ==
    /\ pc = "done"
    /\ \E i \in 1..Len(visited) :
          /\ i < Len(visited)
          /\ NameChars(visited[i]) # LOCAL_METADATA_FILE
          /\ Logged("Failed to delete file", visited[i])
          /\ fs[visited[i]].exists

(***************************************************************************)
(* C8: when read_dir fails on a directory D, nothing below D is enqueued,  *)
(* dequeued or deleted, and the failure does not leave the loop; in a run  *)
(* whose only failures are read_dir failures, every directory that is not  *)
(* below a failed directory has been dequeued and listed, and every        *)
(* eligible file that is not below one has been deleted, when cleanup is   *)
(* done.                                                                   *)
(***************************************************************************)
ListingFailed(d) == Logged("Failed to read directory", d)

Ancestors(p) == {SubSeq(p, 1, k) : k \in 1..(Len(p) - 1)}

\* no ancestor of p failed to list, and every ancestor has a name
Outside(p) ==
    \A a \in Ancestors(p) : ~ListingFailed(a) /\ ~is_none(get_file_name(a))

OnlyListingFailures ==
    \A i \in 1..Len(log) :
        log[i].msg \notin {"Failed to delete file", "Failed to read directory entry"}

\* a regular file the tool is meant to delete
Eligible(p) ==
    /\ fs[p].kind = "file"
    /\ \/ NameChars(p) = LOCAL_METADATA_FILE
       \/ /\ ends_with(FolderChars(p), SNAPSHOT_SUFFIX)
          /\ HasRecognizedSuffix(NameChars(p))
          /\ ~contains(NameChars(p), FolderChars(p))

C8_ListingFailureIsLocal ==
    /\ \A d \in DOMAIN fs : ListingFailed(d) =>
          \A p \in DOMAIN fs : IsUnder(p, d) =>
              ~InSeq(queue, p) /\ ~InSeq(visited, p) /\ ~Removed(p)
    /\ pc = "halted" => MetadataDeleteFailed
    /\ (pc = "done" /\ OnlyListingFailures) =>
          \A p \in DOMAIN fs : Outside(p) =>
              /\ fs[p].kind = "dir" =>
                    /\ InSeq(visited, p)
                    /\ ~is_none(get_file_name(p)) =>
                          Logged("Scanning", p) \/ ListingFailed(p)
              /\ (Len(p) >= 2 /\ Eligible(p)) => Removed(p)

\* a directory with a child could not be listed; a file beside it was deleted
C8_Witness ==
    /\ pc = "done"
    /\ \E d, c, p \in Entries :
          /\ ListingFailed(d) /\ IsUnder(c, d)
          /\ ~IsUnder(p, d) /\ Eligible(p) /\ Removed(p)

(***************************************************************************)
(* C9: a name that cannot be resolved is skipped: nothing is deleted for   *)
(* it and the run goes on to the summary, it is never aborted.             *)
(***************************************************************************)
C9_UnresolvableNameIsSkipped ==
    /\ \A p \in DOMAIN fs : is_none(get_file_name(p)) => ~Removed(p)
    /\ pc # "panicked"

(***************************************************************************)
(* C10: cleanup stops only when it is done, with the queue drained or      *)
(* after the halt on a maven-metadata-local.xml file, and with the summary *)
(* logged exactly once, as the last line.                                  *)
(***************************************************************************)
C10_EndsWithOneSummary ==
    ~ENABLED Next =>
        /\ pc = "done"
        /\ queue = <<>> \/ MetadataDeleteFailed
        /\ Cardinality({i \in 1..Len(log) : log[i].msg = "Deleted size"}) = 1
        /\ log[Len(log)] = Summary(deleted_size)

(***************************************************************************)
(* main, lines 29-40.  The path given on the command line may name         *)
(* nothing, a regular file, an entry that is neither a regular file nor a  *)
(* directory (a fifo, a socket, a device), or a directory.  main exits     *)
(* with status 1 when !path.exists() or path.is_file(); otherwise it logs  *)
(* "Cleaning up" and calls cleanup.  pc is "main" before the tests and     *)
(* "exit1" after process::exit(1); main returns (status 0) at "done".      *)
(***************************************************************************)
ArgNames == RootNames \cup {N_STALE, N_SHA}

\* what the argument may name: nothing (the empty function), or a root
ArgTargets(r) ==
    {<<>>} \cup (IF r \in RootNames
                 THEN FileSystemsOf(r, MaxSmall)
                 ELSE {(<<r>> :> m) : m \in Meta(<<r>>)})

InitMain ==
    /\ repo_path \in {<<r>> : r \in ArgNames}
    /\ fs \in ArgTargets(repo_path[1])
    /\ queue = <<>>
    /\ deleted_size = 0
    /\ pc = "main"
    /\ log = <<>>
    /\ probe_failed = FALSE
    /\ reclaimed = 0
    /\ visited = <<>>
    /\ plan = "once"
    /\ prior = <<>>
    /\ oracle = <<>>
    /\ call = None

\* main.rs:30-37: process::exit(1)
MainExits ==
    /\ pc = "main"
    /\ ~exists(fs, repo_path) \/ is_file(fs, repo_path)
    /\ log' = Append(log, Line("error",
                  IF ~exists(fs, repo_path) THEN "file or directory does not exist"
                                            ELSE "Maven Repo is not a file",
                  repo_path))
    /\ pc' = "exit1"
    /\ UNCHANGED <<fs, repo_path, queue, deleted_size, probe_failed, reclaimed, visited,
                   plan, prior, oracle, call>>

\* main.rs:39-40, 44-46: cleanup is called and seeds its queue
MainCleansUp ==
    /\ pc = "main"
    /\ exists(fs, repo_path)
    /\ ~is_file(fs, repo_path)
    /\ log' = Append(log, Line("info", "Cleaning up", repo_path))
    /\ queue' = <<repo_path>>
    /\ deleted_size' = 0
    /\ pc' = "loop"
    /\ UNCHANGED <<fs, repo_path, probe_failed, reclaimed, visited, plan, prior, oracle, call>>

NextMain ==
    \/ MainExits
    \/ MainCleansUp
    \/ Next

SpecMain == InitMain /\ [][NextMain]_vars

(***************************************************************************)
(* C11: when the path given on the command line is not an existing         *)
(* directory, main never gets past its tests: the program is still in main *)
(* or has exited with status 1, cleanup has not seeded its queue, and no   *)
(* deletion has been attempted.                                            *)
(***************************************************************************)
C11_NonDirectoryRootIsRejected ==
    ~is_dir(fs, repo_path) =>
        /\ pc \in {"main", "exit1"}
        /\ queue = <<>>
        /\ visited = <<>>
        /\ \A p \in DOMAIN fs : fs[p].exists /\ ~Logged("Deleting", p)

(***************************************************************************)
(* The program run twice on the same root, with nothing else touching the  *)
(* tree: when the first process has ended (main returned, or the thread    *)
(* panicked) a second one starts cleanup on what the first left.  Every    *)
(* call of the second run has an outcome of its own.                       *)
(***************************************************************************)
RunEnded == pc \in {"done", "panicked"}

\* what a run leaves behind
Left ==
    [fs |-> fs, deleted_size |-> deleted_size, log |-> log, visited |-> visited, pc |-> pc]

InitTwice ==
    /\ repo_path \in {<<r>> : r \in RootNames}
    /\ fs \in FileSystemsOf(repo_path[1], MaxSmall)
    /\ queue = <<repo_path>>
    /\ deleted_size = 0
    /\ pc = "loop"
    /\ log = <<>>
    /\ probe_failed = FALSE
    /\ reclaimed = 0
    /\ visited = <<>>
    /\ plan = "again"
    /\ prior = <<>>
    /\ oracle = <<>>
    /\ call = None

\* main.rs:21-46 in a second process: a fresh counter and a fresh queue
RunAgain ==
    /\ plan = "again"
    /\ prior = <<>>
    /\ RunEnded
    /\ prior' = <<Left>>
    /\ queue' = <<repo_path>>
    /\ deleted_size' = 0
    /\ pc' = "loop"
    /\ log' = <<>>
    /\ probe_failed' = FALSE
    /\ reclaimed' = 0
    /\ visited' = <<>>
    /\ UNCHANGED <<fs, repo_path, plan, oracle, call>>

NextTwice ==
    \/ Next
    \/ RunAgain

SpecTwice == InitTwice /\ [][NextTwice]_vars

\* the lines of a log about path p that report a failed remove_file
FailedIn(lg, p) ==
    \E i \in 1..Len(lg) : lg[i].msg = "Failed to delete file" /\ lg[i].arg = p

\* a run that reached its summary and logged no error
CleanRun(l) ==
    /\ l.pc = "done"
    /\ \A i \in 1..Len(l.log) : l.log[i].level # "error"

InSecondRun == plan = "again" /\ prior # <<>>

(***************************************************************************)
(* C12 as stated: in a second run on the tree the first run left, no file  *)
(* is deleted, the counter stays 0, and the summary reports 0 B.           *)
(***************************************************************************)
C12_SecondRunDeletesNothing ==
    InSecondRun =>
        /\ fs = prior[1].fs
        /\ deleted_size = 0
        /\ pc = "done" => log[Len(log)] = Summary(0)

(***************************************************************************)
(* C12, amended: a second run deletes only files that the first run never  *)
(* dequeued or failed to delete; and after a first run that reached its    *)
(* summary without logging an error, the second run deletes no file, its   *)
(* counter stays 0 and its summary reports 0 B.                            *)
(***************************************************************************)
C12_SecondRunDeletesOnlyLeftovers ==
    InSecondRun =>
        /\ \A p \in DOMAIN fs :
              (prior[1].fs[p].exists /\ ~fs[p].exists) =>
                  ~InSeq(prior[1].visited, p) \/ FailedIn(prior[1].log, p)
        /\ CleanRun(prior[1]) =>
              /\ fs = prior[1].fs
              /\ deleted_size = 0
              /\ pc = "done" => log[Len(log)] = Summary(0)

\* a first run without errors removed a counted file, and the second run,
\* which scanned the root again, has reported 0 B
C12_Witness ==
    /\ InSecondRun
    /\ CleanRun(prior[1])
    /\ prior[1].deleted_size > 0
    /\ \E p \in DOMAIN fs : ~fs[p].exists
    /\ pc = "done"
    /\ Logged("Scanning", repo_path)
    /\ log[Len(log)] = Summary(0)

(***************************************************************************)
(* C13: remove_file is called only on a path that was dequeued and is not  *)
(* a directory; no directory is passed to it, and every directory of the   *)
(* initial tree still exists.                                              *)
(***************************************************************************)
C13_DirectoriesAreNeverDeleted ==
    /\ \A p \in DOMAIN fs :
          fs[p].kind = "dir" => fs[p].exists /\ ~Logged("Deleting", p)
    /\ \A i \in 1..Len(log) :
          log[i].msg = "Deleting" =>
              InSeq(visited, log[i].arg) /\ fs[log[i].arg].kind # "dir"

\* a directory named like a stale artifact was dequeued and listed, and is
\* still there at the end of a run that deleted a file
C13_Witness ==
    /\ pc = "done"
    /\ \E d \in Entries :
          /\ fs[d].kind = "dir"
          /\ HasRecognizedSuffix(NameChars(d))
          /\ ~contains(NameChars(d), FolderChars(d))
          /\ InSeq(visited, d)
          /\ Logged("Scanning", d)
          /\ fs[d].exists
    /\ \E p \in Entries : Removed(p)

(***************************************************************************)
(* format_size on its own: the argument is drawn from the sizes around 0,  *)
(* the sizes the specification gives as examples and the three thresholds, *)
(* and the function is applied to it.                                      *)
(***************************************************************************)
FormatBases ==
    {[hi |-> 0, lo |-> 0], [hi |-> 0, lo |-> 512], [hi |-> 0, lo |-> KiB],
     [hi |-> 0, lo |-> 2 * KiB], [hi |-> 1, lo |-> 0], [hi |-> 5, lo |-> 0],
     [hi |-> GiB \div MiB, lo |-> 0], [hi |-> 3 * (GiB \div MiB), lo |-> 0]}

\* size + d, for -2^20 < d < 2^20
Plus(size, d) ==
    IF size.lo + d < 0 THEN [hi |-> size.hi - 1, lo |-> size.lo + d + MiB]
    ELSE IF size.lo + d >= MiB THEN [hi |-> size.hi + 1, lo |-> size.lo + d - MiB]
    ELSE [hi |-> size.hi, lo |-> size.lo + d]

FormatInputs ==
    {n \in {Plus(b, d) : b \in FormatBases, d \in -MaxDelta..MaxDelta} : n.hi >= 0}

InitFormat ==
    /\ call \in {[size |-> n, text |-> None] : n \in FormatInputs}
    /\ repo_path = <<N_REPO>>
    /\ fs = (repo_path :> [kind |-> "dir", exists |-> TRUE])
    /\ queue = <<>>
    /\ deleted_size = 0
    /\ pc = "loop"
    /\ log = <<>>
    /\ probe_failed = FALSE
    /\ reclaimed = 0
    /\ visited = <<>>
    /\ plan = "once"
    /\ prior = <<>>
    /\ oracle = <<>>

\* main.rs:132-139: format_size(size) returns
FormatSize ==
    /\ call # None
    /\ call.text = None
    /\ call' = [call EXCEPT !.text = Some(format_size(call.size))]
    /\ UNCHANGED <<fs, repo_path, queue, deleted_size, pc, log, probe_failed, reclaimed,
                   visited, plan, prior, oracle>>

NextFormat == FormatSize

SpecFormat == InitFormat /\ [][NextFormat]_vars

Returned == call # None /\ call.text # None

\* size >= hi * 2^20 + lo
AtLeast(size, hi, lo) == size.hi > hi \/ (size.hi = hi /\ size.lo >= lo)

\* the unit the thresholds select
UnitOf(size) ==
    IF AtLeast(size, GiB \div MiB, 0) THEN "GiB"
    ELSE IF AtLeast(size, 1, 0) THEN "MiB"
    ELSE IF AtLeast(size, 0, KiB) THEN "KiB"
    ELSE "B"

Printed(hundredths, decimals, unit) ==
    [hundredths |-> hundredths, decimals |-> decimals, unit |-> unit]

\* 512, 2048, 5242880 and 3221225472 give "512 B", "2.00 KiB", "5.00 MiB", "3.00 GiB"
ExamplesPrinted ==
    /\ call.size = [hi |-> 0, lo |-> 512] => unwrap(call.text) = Printed(51200, 0, "B")
    /\ call.size = [hi |-> 0, lo |-> 2048] => unwrap(call.text) = Printed(200, 2, "KiB")
    /\ call.size = [hi |-> 5, lo |-> 0] => unwrap(call.text) = Printed(500, 2, "MiB")
    /\ call.size = [hi |-> 3072, lo |-> 0] => unwrap(call.text) = Printed(300, 2, "GiB")

UnitAndDecimals ==
    /\ unwrap(call.text).unit = UnitOf(call.size)
    /\ unwrap(call.text).decimals = (IF UnitOf(call.size) = "B" THEN 0 ELSE 2)

(***************************************************************************)
(* C14 as stated: format_size picks the unit by the thresholds 2^30, 2^20  *)
(* and 2^10, prints two decimals for GiB, MiB and KiB and an integer for   *)
(* bytes, and the printed number is at least 1 and, below GiB, less than   *)
(* 1024.                                                                   *)
(***************************************************************************)
C14_PrintedNumberWithinUnit ==
    Returned =>
        /\ UnitAndDecimals
        /\ ExamplesPrinted
        /\ unwrap(call.text).hundredths >= 100
        /\ unwrap(call.text).unit # "GiB" => unwrap(call.text).hundredths < 102400

(***************************************************************************)
(* C14, amended: the unit, the decimals and the examples are as stated;    *)
(* the printed number is at least 1 except for size 0, which prints 0 B;   *)
(* below GiB it is at most 1024.00, and it is 1024.00 (not less) for the   *)
(* sizes that round up to it, just below 2^20 and just below 2^30.         *)
(***************************************************************************)
C14_PrintedNumberUpToRounding ==
    Returned =>
        /\ UnitAndDecimals
        /\ ExamplesPrinted
        /\ unwrap(call.text).hundredths >= 100 \/ call.size = [hi |-> 0, lo |-> 0]
        /\ unwrap(call.text).unit # "GiB" => unwrap(call.text).hundredths <= 102400
        /\ (unwrap(call.text).unit # "GiB" /\ unwrap(call.text).hundredths = 102400)
              => \/ AtLeast(Plus(call.size, 6), 1, 0) /\ ~AtLeast(call.size, 1, 0)
                 \/ AtLeast(Plus(call.size, 5243), GiB \div MiB, 0)

\* format_size has returned "1024.00 KiB" for 2^20 - 1 bytes
C14_Witness ==
    /\ Returned
    /\ call.size = [hi |-> 0, lo |-> MiB - 1]
    /\ unwrap(call.text) = Printed(102400, 2, "KiB")

(***************************************************************************)
(* The paths pushed so far, in the order of the pushes: those pop_front    *)
(* has returned, then those still in the queue.                            *)
(***************************************************************************)
Pushed == visited \o queue

NoDuplicates(q) == \A i, j \in 1..Len(q) : q[i] = q[j] => i = j

\* the lines that report a read_dir of d: d was listed, or could not be
ListingLines(d) ==
    {i \in 1..Len(log) : /\ log[i].msg \in {"Scanning", "Failed to read directory"}
                         /\ log[i].arg = d}

(***************************************************************************)
(* C15: no path is pushed twice, so none is twice in the queue and none is *)
(* dequeued twice; a directory is listed at most once, and only when it    *)
(* has been dequeued.                                                      *)
(***************************************************************************)
C15_EachPathAtMostOnce ==
    /\ NoDuplicates(Pushed)
    /\ \A d \in DOMAIN fs :
          /\ Cardinality(ListingLines(d)) <= 1
          /\ ListingLines(d) # {} => InSeq(visited, d) /\ fs[d].kind = "dir"

\* a run is done that pushed a file pushed for two reasons at once (named
\* maven-metadata-local.xml, under a -SNAPSHOT directory) and dequeued it
C15_Witness ==
    /\ pc = "done"
    /\ queue = <<>>
    /\ \E p \in MetadataFiles :
          /\ Len(p) = 3
          /\ ends_with(FolderChars(p), SNAPSHOT_SUFFIX)
          /\ fs[p].kind = "file"
          /\ InSeq(visited, p)
          /\ Logged("Scanning", SubSeq(p, 1, 2))

IsPrefix(q, r) == Len(q) <= Len(r) /\ SubSeq(r, 1, Len(q)) = q

NonDecreasingDepth(q) == \A i, j \in 1..Len(q) : i < j => Len(q[i]) <= Len(q[j])

(***************************************************************************)
(* C16: the queue is first-in-first-out and the walk breadth-first.  Every *)
(* step keeps the pushes made so far in their order and adds new ones      *)
(* after them; a step that dequeues takes the oldest pending push; and the *)
(* depths along the order of the pushes never decrease, so no path is      *)
(* dequeued while a path nearer to the root is pending or yet to be pushed.*)
(***************************************************************************)
C16_FirstInFirstOut ==
    /\ [](NonDecreasingDepth(Pushed))
    /\ [][/\ IsPrefix(Pushed, Pushed')
           /\ visited' # visited =>
                 /\ queue # <<>>
                 /\ visited' = Append(visited, Head(queue))
                 /\ IsPrefix(Tail(queue), queue')]_vars

\* a file at depth 2 has been dequeued after two entries of depth 1, one of
\* them pushed after its parent
C16_Witness ==
    /\ Len(visited) = 4
    /\ Len(visited[4]) = 3
    /\ Len(visited[3]) = 2
    /\ Len(visited[2]) = 2
    /\ visited[2] = SubSeq(visited[4], 1, 2)

\* the attempts to delete p
DeletingLines(p) == {i \in 1..Len(log) : log[i].msg = "Deleting" /\ log[i].arg = p}

\* the paths on which the suffix loop attempted a deletion
AttemptedArtifacts ==
    {p \in DOMAIN fs : DeletingLines(p) # {} /\ NameChars(p) # LOCAL_METADATA_FILE}

(***************************************************************************)
(* C17: none of the six suffixes ends with another, so no name ends with   *)
(* two of them; for every path at most one deletion has been attempted,    *)
(* and the counter holds at most one size for each file the suffix loop    *)
(* attempted to delete.                                                    *)
(***************************************************************************)
C17_AtMostOneDeletionPerFile ==
    /\ \A i, j \in 1..Len(SUFFIXIES) :
          i # j => ~ends_with(SUFFIXIES[i], SUFFIXIES[j])
    /\ \A p \in DOMAIN fs :
          /\ Cardinality(DeletingLines(p)) <= 1
          /\ Cardinality({i \in 1..Len(SUFFIXIES) : ends_with(NameChars(p), SUFFIXIES[i])}) <= 1
    /\ deleted_size <= MaxSize * Cardinality(AttemptedArtifacts)

\* a file ending in .war.sha1 was deleted at the first attempt, and the run
\* went on to its summary
C17_Witness ==
    /\ pc = "done"
    /\ \E p \in Entries :
          /\ ends_with(NameChars(p), SUFFIXIES[6])
          /\ fs[p].kind = "file"
          /\ Cardinality(DeletingLines(p)) = 1
          /\ Removed(p)
          /\ deleted_size > 0

\* a non-directory with a resolvable name that is not the metadata file and
\* ends in none of the suffixes
Unrecognized(p) ==
    /\ p \in Entries
    /\ fs[p].kind # "dir"
    /\ names_resolved(p)
    /\ NameChars(p) # LOCAL_METADATA_FILE
    /\ ~HasRecognizedSuffix(NameChars(p))

(***************************************************************************)
(* C18: a file whose name is not maven-metadata-local.xml and ends in none *)
(* of the six suffixes is never deleted and no deletion of it is ever      *)
(* attempted; the step that dequeues it changes neither the tree nor the   *)
(* counter nor the log.                                                    *)
(***************************************************************************)
C18_UnrecognizedFileUntouched ==
    /\ [](\A p \in Entries : Unrecognized(p) => ~Removed(p) /\ DeletingLines(p) = {})
    /\ [][(queue # <<>> /\ Unrecognized(Head(queue)) /\ visited' # visited)
           => UNCHANGED <<fs, deleted_size, reclaimed, log>>]_vars

\* notes.zip under a -SNAPSHOT directory was dequeued and is still there at
\* the end of a run that deleted its stale neighbour
C18_Witness ==
    /\ pc = "done"
    /\ \E p \in Entries :
          /\ Unrecognized(p)
          /\ ends_with(FolderChars(p), SNAPSHOT_SUFFIX)
          /\ InSeq(visited, p)
          /\ ~Removed(p)
          /\ \E q \in SnapshotArtifacts :
                SubSeq(q, 1, 2) = SubSeq(p, 1, 2) /\ Removed(q)

(***************************************************************************)
(* Two runs on the same initial tree that differ only in the order in      *)
(* which read_dir yields the entries: when the first run has ended the     *)
(* tree is put back as it was and cleanup runs again; the calls made for a *)
(* path have the outcome they had in the first run (oracle), and every     *)
(* listing is again in any order.                                          *)
(***************************************************************************)
InitReplay ==
    /\ repo_path \in {<<r>> : r \in RootNames}
    /\ fs \in FileSystemsOf(repo_path[1], MaxSmall)
    /\ queue = <<repo_path>>
    /\ deleted_size = 0
    /\ pc = "loop"
    /\ log = <<>>
    /\ probe_failed = FALSE
    /\ reclaimed = 0
    /\ visited = <<>>
    /\ plan = "replay"
    /\ prior = <<>>
    /\ oracle = <<>>
    /\ call = None

\* main.rs:43-46 on the initial tree once more
Replay ==
    /\ plan = "replay"
    /\ prior = <<>>
    /\ RunEnded
    /\ prior' = <<Left>>
    /\ fs' = [p \in DOMAIN fs |-> [fs[p] EXCEPT !.exists = TRUE]]
    /\ queue' = <<repo_path>>
    /\ deleted_size' = 0
    /\ pc' = "loop"
    /\ log' = <<>>
    /\ probe_failed' = FALSE
    /\ reclaimed' = 0
    /\ visited' = <<>>
    /\ UNCHANGED <<repo_path, plan, oracle, call>>

NextReplay ==
    \/ Next
    \/ Replay

SpecReplay == InitReplay /\ [][NextReplay]_vars

\* the summary lines of a log
Summaries(lg) == {lg[i] : i \in {j \in 1..Len(lg) : lg[j].msg = "Deleted size"}}

BothRunsEnded == plan = "replay" /\ prior # <<>> /\ RunEnded

\* a run that reached its summary and was not cut short by the break of line 100
NotCutShort(l) ==
    /\ l.pc = "done"
    /\ \A i \in 1..Len(l.log) :
          l.log[i].msg = "Failed to delete file"
              => Chars(l.log[i].arg[Len(l.log[i].arg)]) # LOCAL_METADATA_FILE

(***************************************************************************)
(* C19 as stated: two runs on the same initial tree, with the same outcome *)
(* of the calls made for each path, end with the same files deleted and    *)
(* the same reported total, whatever the order of the listings.            *)
(***************************************************************************)
C19_OrderDoesNotMatter ==
    BothRunsEnded =>
        /\ fs = prior[1].fs
        /\ Summaries(log) = Summaries(prior[1].log)

(***************************************************************************)
(* C19, amended: when one of the two runs reaches its summary without a    *)
(* failed deletion of a maven-metadata-local.xml, so does the other, and   *)
(* both end with the same files deleted and the same reported total.       *)
(***************************************************************************)
C19_OrderDoesNotMatterUnlessCutShort ==
    (BothRunsEnded /\ NotCutShort(prior[1])) =>
        /\ NotCutShort(Left)
        /\ fs = prior[1].fs
        /\ Summaries(log) = Summaries(prior[1].log)

\* two complete runs dequeued the same paths in different orders and each
\* deleted a file
C19_Witness ==
    /\ BothRunsEnded
    /\ NotCutShort(prior[1])
    /\ visited # prior[1].visited
    /\ Len(visited) = Len(prior[1].visited)
    /\ \E p \in Entries : Removed(p)

====
